---- MODULE Spec2Model ----
(***************************************************************************)
(* Model of the Ben's Farmhouse recipe scripts:                            *)
(*   scripts/import-bens-farmhouse-recipes.py  (parse_excel, parse_recipe, *)
(*                                              insert_recipes_batch)      *)
(*   scripts/enrich-bens-farmhouse-recipes.py  (fetch, build_update_payload*)
(*                                              and the update loop)       *)
(*                                                                         *)
(* Worksheet cells are typed values (empty, number, text).  Text is a      *)
(* sequence of one-character strings so that the substring, strip and      *)
(* number-parsing tests of the code are computed, not assumed.  Numbers    *)
(* are integers; text in the model never holds a decimal point, an         *)
(* exponent, "inf" or "nan".                                               *)
(***************************************************************************)
EXTENDS Integers, Sequences, FiniteSets, TLC

VARIABLES
    script,            \* which entry point runs: "parse", "insert", "enrich"
    pc,                \* position of the running function
    ws,                \* the worksheet: a sequence of rows, each 9 cells (A..I)
    max_row,           \* ws.max_row, read once by parse_excel
    recipe_id_rows,    \* parse_excel: rows found by pass 1
    idx,               \* parse_excel: index (1-based) of the next marker of pass 2
    current_category,  \* parse_excel: the sticky category
    recipes,           \* parse_excel: the Records emitted so far
    resolved,          \* history: per processed marker, what its iteration did
    total,             \* insert_recipes_batch: len(recipes)
    batch_size,        \* insert_recipes_batch: its batch_size argument
    i,                 \* insert_recipes_batch: start offset of the current batch
    j,                 \* insert_recipes_batch: position in the one-by-one loop
    inserted,          \* insert_recipes_batch: counter
    errors,            \* insert_recipes_batch / enricher main: counter
    requests,          \* history: every request sent to the record store
    nutrient,          \* enricher: the rows of the nutrient sheet
    db,                \* enricher: the rows the record store returns
    matched,           \* enricher main: the (recipe, nutrient_info) pairs
    k,                 \* enricher main: index (1-based) of the next matched pair
    updated,           \* enricher main: counter
    argv,              \* main: the flags of sys.argv
    response           \* main: the answer read by input(), None before it

parseVars == <<ws, max_row, recipe_id_rows, idx, current_category, recipes, resolved>>
insertVars == <<total, batch_size, i, j, inserted>>
enrichVars == <<nutrient, db, matched, k, updated>>
gateVars == <<argv, response>>
vars == <<script, pc, parseVars, insertVars, enrichVars, errors, requests, gateVars>>

(***************************************************************************)
(* Text                                                                    *)
(***************************************************************************)
Digits == <<"0", "1", "2", "3", "4", "5", "6", "7", "8", "9">>

IsDigit(c) == \E d \in 1..10 : Digits[d] = c

DigitVal(c) == (CHOOSE d \in 1..10 : Digits[d] = c) - 1

\* hay.find(needle) >= 0, i.e. Python's  needle in hay
Contains(hay, needle) ==
    \E p \in 1..(Len(hay) - Len(needle) + 1) :
        SubSeq(hay, p, p + Len(needle) - 1) = needle

RECURSIVE LStrip(_)
LStrip(s) == IF s # <<>> /\ Head(s) = " " THEN LStrip(Tail(s)) ELSE s

RECURSIVE RStrip(_)
RStrip(s) ==
    IF s # <<>> /\ s[Len(s)] = " " THEN RStrip(SubSeq(s, 1, Len(s) - 1)) ELSE s

\* str.strip()
Strip(s) == RStrip(LStrip(s))

RECURSIVE NatToStr(_)
NatToStr(n) ==
    IF n < 10 THEN <<Digits[n + 1]>>
    ELSE NatToStr(n \div 10) \o <<Digits[(n % 10) + 1]>>

\* str(n) of an integer
IntToStr(n) == IF n < 0 THEN <<"-">> \o NatToStr(0 - n) ELSE NatToStr(n)

RECURSIVE DigitsToNat(_, _)
DigitsToNat(s, acc) ==
    IF s = <<>> THEN acc ELSE DigitsToNat(Tail(s), acc * 10 + DigitVal(Head(s)))

AllDigits(s) == s # <<>> /\ \A p \in 1..Len(s) : IsDigit(s[p])

\* float(text): [ok |-> FALSE] stands for ValueError
StrToFloat(s) ==
    LET t == Strip(s)
        signed == t # <<>> /\ Head(t) \in {"-", "+"}
        body == IF signed THEN Tail(t) ELSE t
    IN  IF AllDigits(body)
        THEN [ok |-> TRUE,
              n |-> IF signed /\ Head(t) = "-" THEN 0 - DigitsToNat(body, 0)
                    ELSE DigitsToNat(body, 0)]
        ELSE [ok |-> FALSE, n |-> 0]

(***************************************************************************)
(* Cells                                                                   *)
(***************************************************************************)
None == [t |-> "none", s |-> <<>>, n |-> 0]
Num(x) == [t |-> "num", s |-> <<>>, n |-> x]
Txt(x) == [t |-> "str", s |-> x, n |-> 0]

\* Python truthiness of a cell value:  if v
Truthy(v) == (v.t = "num" /\ v.n # 0) \/ (v.t = "str" /\ v.s # <<>>)

\* str(v) of a cell value that is not None
Str(v) == IF v.t = "num" THEN IntToStr(v.n) ELSE v.s

\* float(v): TypeError for None, ValueError for text that is no number
Float(v) ==
    IF v.t = "num" THEN [ok |-> TRUE, n |-> v.n]
    ELSE IF v.t = "str" THEN StrToFloat(v.s)
    ELSE [ok |-> FALSE, n |-> 0]

\* ws.cell(row=r, column=c).value; a cell outside the sheet reads as None
Cell(sheet, r, c) == IF r \in DOMAIN sheet THEN sheet[r][c] ELSE None

(***************************************************************************)
(* The literals the importer compares cell text with                       *)
(***************************************************************************)
S_RecipeID ==
    <<"R", "e", "c", "i", "p", "e", " ", "I", "D">>

S_Ingredients ==
    <<"I", "n", "g", "r", "e", "d", "i", "e", "n", "t", "s">>

S_SNo ==
    <<"S", ".", "N", "o">>

S_BensFarmhouse ==
    <<"B", "E", "N", "'", "S", " ", "F", "A", "R", "M", "H", "O", "U", "S", "E">>

S_TotalYield ==
    <<"T", "o", "t", "a", "l", " ", "Y", "i", "e", "l", "d">>

S_Description ==
    <<"D", "e", "s", "c", "r", "i", "p", "t", "i", "o", "n">>

S_PreparationTime ==
    <<"P", "r", "e", "p", "a", "r", "a", "t", "i", "o", "n", " ", "T", "i", "m", "e">>

S_Calories ==
    <<"C", "a", "l", "o", "r", "i", "e", "s">>

S_PerServingWeight ==
    <<"P", "e", "r", " ", "S", "e", "r", "v", "i", "n", "g", " ", "W", "e", "i", "g", "h", "t">>

(***************************************************************************)
(* parse_recipe                                                            *)
(***************************************************************************)
\* the six metadata locals, all None before the scan
MetaInit ==
    [recipe_id_source |-> None, total_yield |-> None, total_calories |-> None,
     per_serving_weight |-> None, description |-> None, prep_time |-> None]

\* float(c_val) if c_val else None, under  except (ValueError, TypeError): None
FloatOrNone(v) ==
    IF Truthy(v) /\ Float(v).ok THEN Num(Float(v).n) ELSE None

\* the column B / column C part of one metadata row
MetaLabel(m, sheet, row) ==
    LET b_val == Cell(sheet, row, 2)
        c_val == Cell(sheet, row, 3)
        b_str == Strip(Str(b_val))
    IN  IF ~Truthy(b_val) THEN m
        ELSE IF Contains(b_str, S_RecipeID)
        THEN [m EXCEPT !.recipe_id_source =
                 IF Truthy(c_val) THEN Txt(Strip(Str(c_val))) ELSE None]
        ELSE IF Contains(b_str, S_TotalYield)
        THEN [m EXCEPT !.total_yield = FloatOrNone(c_val)]
        ELSE IF Contains(b_str, S_Description)
        THEN [m EXCEPT !.description =
                 IF Truthy(c_val) THEN Txt(Strip(Str(c_val))) ELSE Txt(<<>>)]
        ELSE IF Contains(b_str, S_PreparationTime)
        THEN [m EXCEPT !.prep_time = FloatOrNone(c_val)]
        ELSE m

\* the body of  for col in [6, 7]  for one column
MetaHeader(m, sheet, row, col) ==
    LET h == Cell(sheet, row, col)
        h_str == Strip(Str(h))
        v == Cell(sheet, row, col + 1)
    IN  IF ~Truthy(h) THEN m
        ELSE IF Contains(h_str, S_Calories)
        THEN IF v # None /\ Float(v).ok
             THEN [m EXCEPT !.total_calories = Num(Float(v).n)] ELSE m
        ELSE IF Contains(h_str, S_PerServingWeight)
        THEN IF v # None /\ Float(v).ok
             THEN [m EXCEPT !.per_serving_weight = Num(Float(v).n)] ELSE m
        ELSE m

\* a_val and str(a_val).strip() == 'Ingredients'
IsIngredientsLabel(sheet, row) ==
    LET a_val == Cell(sheet, row, 1)
    IN  Truthy(a_val) /\ Strip(Str(a_val)) = S_Ingredients

\* for row in range(rid_row, min(rid_row + 8, max_row + 1)), from `row` on
RECURSIVE MetaScan(_, _, _, _)
MetaScan(m, sheet, row, stop) ==
    IF row >= stop THEN m
    ELSE LET m1 == MetaLabel(m, sheet, row)
             m2 == MetaHeader(m1, sheet, row, 6)
             m3 == MetaHeader(m2, sheet, row, 7)
         IN  IF IsIngredientsLabel(sheet, row) THEN m3
             ELSE MetaScan(m3, sheet, row + 1, stop)

Min(a, b) == IF a <= b THEN a ELSE b
Max(a, b) == IF a >= b THEN a ELSE b

\* the second loop of parse_recipe: ingredients_start, 0 standing for None
RECURSIVE FindIngredients(_, _, _)
FindIngredients(sheet, row, stop) ==
    IF row >= stop THEN 0
    ELSE IF IsIngredientsLabel(sheet, row)
    THEN LET next_a == Cell(sheet, row + 1, 1)
         IN  IF Truthy(next_a) /\ Contains(Str(next_a), S_SNo)
             THEN row + 2 ELSE row + 1
    ELSE FindIngredients(sheet, row + 1, stop)

\* IngredientsStart changed to look at 13 rows instead of 12
IngredientsStart_ThirteenRows(sheet, rid_row, maxr) ==
    FindIngredients(sheet, rid_row, Min(rid_row + 13, maxr + 1))

\* IngredientsStart changed to look at 5 rows instead of 12
IngredientsStart_FiveRows(sheet, rid_row, maxr) ==
    FindIngredients(sheet, rid_row, Min(rid_row + 5, maxr + 1))

IngredientsStart(sheet, rid_row, maxr) ==
    FindIngredients(sheet, rid_row, Min(rid_row + 12, maxr + 1))

\* int(float(str(a_val))) succeeds
IsOrdinal(a_val) == StrToFloat(Str(a_val)).ok

\* qty_val: float(yield_qty) if yield_qty else (float(quantity) if quantity
\* else 0), and 0 when the evaluation raises
QtyVal(quantity, yield_qty) ==
    IF Truthy(yield_qty)
    THEN IF Float(yield_qty).ok THEN Float(yield_qty).n ELSE 0
    ELSE IF Truthy(quantity)
    THEN IF Float(quantity).ok THEN Float(quantity).n ELSE 0
    ELSE 0

\* building the dict raises ValueError: float(cost) or float(yield_pct)
IngRaises(sheet, row) ==
    LET yield_pct == Cell(sheet, row, 7)
        cost == Cell(sheet, row, 9)
    IN  (Truthy(cost) /\ ~Float(cost).ok)
        \/ (Truthy(yield_pct) /\ ~Float(yield_pct).ok)

\* the dict  ing  of one numbered row; src_row is the loop's row (history)
Ing(sheet, row) ==
    LET ingredient_id == Cell(sheet, row, 2)
        ingredient_name == Cell(sheet, row, 3)
        ingredient_type == Cell(sheet, row, 4)
        sub_recipe_name == Cell(sheet, row, 5)
        quantity == Cell(sheet, row, 6)
        yield_pct == Cell(sheet, row, 7)
        yield_qty == Cell(sheet, row, 8)
        cost == Cell(sheet, row, 9)
        qty_val == QtyVal(quantity, yield_qty)
    IN  [name |-> IF Truthy(ingredient_name)
                  THEN Strip(Str(ingredient_name)) ELSE <<>>,
         source |-> IF Truthy(ingredient_type)
                    THEN Strip(Str(ingredient_type))
                    ELSE <<"I", "n", "g", "r", "e", "d", "i", "e", "n", "t">>,
         quantity |-> qty_val,
         cost |-> IF Truthy(cost) THEN Float(cost).n ELSE 0,
         yield_percent |-> IF Truthy(yield_pct) THEN Float(yield_pct).n ELSE 100,
         quantity_in_grams |-> qty_val,
         yield_quantity_in_grams |-> qty_val,
         ingredient_id |-> IF Truthy(ingredient_id)
                           THEN Strip(Str(ingredient_id)) ELSE <<>>,
         sub_recipe_name |-> IF Truthy(sub_recipe_name)
                             THEN Txt(Strip(Str(sub_recipe_name))) ELSE None,
         src_row |-> row]

\* SkipsRow changed to end the scan at every row with an empty column A
SkipsRow_AlwaysBreak(sheet, row) == FALSE

\* an empty column A continues the scan unless columns B and C are empty too
SkipsRow(sheet, row) ==
    Truthy(Cell(sheet, row, 2)) \/ Truthy(Cell(sheet, row, 3))

\* while row <= max_row: ...  from `row` on, with the list built so far
RECURSIVE ParseItems(_, _, _, _)
ParseItems(sheet, row, maxr, acc) ==
    IF row > maxr THEN [raised |-> FALSE, items |-> acc]
    ELSE LET a_val == Cell(sheet, row, 1)
         IN  IF a_val # None
             THEN IF ~IsOrdinal(a_val) THEN [raised |-> FALSE, items |-> acc]
                  ELSE IF IngRaises(sheet, row)
                  THEN [raised |-> TRUE, items |-> acc]
                  ELSE ParseItems(sheet, row + 1, maxr,
                                  Append(acc, Ing(sheet, row)))
             ELSE IF SkipsRow(sheet, row)
                  THEN ParseItems(sheet, row + 1, maxr, acc)
                  ELSE [raised |-> FALSE, items |-> acc]

RECURSIVE SumQty(_)
SumQty(items) ==
    IF items = <<>> THEN 0 ELSE Head(items).quantity_in_grams + SumQty(Tail(items))

\* serving_size = per_serving_weight if per_serving_weight else 100
ServingSize(per_serving_weight) ==
    IF Truthy(per_serving_weight) THEN per_serving_weight.n ELSE 100

\* total_yield_val, after the  == 0  replacement
TotalYieldVal(total_yield, items) ==
    LET v == IF Truthy(total_yield) THEN total_yield.n ELSE SumQty(items)
    IN  IF v = 0 THEN 100 ELSE v

\* round(num / den, 2) in hundredths for den > 0: Python rounds the quotient
\* to the nearest hundredth, a tie to the even one
RoundDiv100(num, den) ==
    LET a == IF num < 0 THEN 0 - num ELSE num
        q == (a * 100) \div den
        r == (a * 100) % den
        up == IF 2 * r > den \/ (2 * r = den /\ q % 2 = 1) THEN q + 1 ELSE q
    IN  IF num < 0 THEN 0 - up ELSE up

\* ScaleFactor changed to cut the quotient off instead of rounding it
ScaleFactor_Truncated(total_yield_val, serving_size) ==
    IF serving_size > 0 THEN (total_yield_val * 100) \div serving_size ELSE 100

\* round(total_yield_val / serving_size if serving_size > 0 else 1, 2),
\* in hundredths
ScaleFactor(total_yield_val, serving_size) ==
    IF serving_size > 0 THEN RoundDiv100(total_yield_val, serving_size) ELSE 100

\* parse_recipe: kind "recipe" with the dict, "none" for return None, "raise"
\* for an exception that leaves the function
parse_recipe(sheet, recipe_name, rid_row, maxr, category) ==
    LET m == MetaScan(MetaInit, sheet, rid_row, Min(rid_row + 8, maxr + 1))
        ingredients_start == IngredientsStart(sheet, rid_row, maxr)
        parsed == ParseItems(sheet, ingredients_start, maxr, <<>>)
        ingredients == parsed.items
        serving_size == ServingSize(m.per_serving_weight)
        total_yield_val == TotalYieldVal(m.total_yield, ingredients)
    IN  IF ingredients_start = 0 THEN [kind |-> "none"]
        ELSE IF parsed.raised THEN [kind |-> "raise"]
        ELSE [kind |-> "recipe",
              name |-> recipe_name,
              category |-> IF Truthy(category) THEN category.s ELSE <<>>,
              description |-> IF Truthy(m.description) THEN m.description.s ELSE <<>>,
              preparation_time_minutes |-> m.prep_time,
              scale_factor |-> ScaleFactor(total_yield_val, serving_size),
              total_yield_grams |-> total_yield_val,
              serving_size_grams |-> serving_size,
              calories |-> IF Truthy(m.total_calories) THEN m.total_calories.n ELSE 0,
              ingredients |-> ingredients,
              source_recipe_id |-> m.recipe_id_source,
              rid_row |-> rid_row]

(***************************************************************************)
(* parse_excel                                                             *)
(***************************************************************************)
\* pass 1: the rows, ascending, whose column B holds 'Recipe ID'
RECURSIVE MarkerRows(_, _, _)
MarkerRows(sheet, row, maxr) ==
    IF row > maxr THEN <<>>
    ELSE LET b_val == Cell(sheet, row, 2)
         IN  IF Truthy(b_val) /\ Contains(Str(b_val), S_RecipeID)
             THEN <<row>> \o MarkerRows(sheet, row + 1, maxr)
             ELSE MarkerRows(sheet, row + 1, maxr)

\* val in ["BEN'S FARMHOUSE", "Ingredients", "S.No"] or val == ''
IsHeaderText(val) == val \in {S_BensFarmhouse, S_Ingredients, S_SNo} \/ val = <<>>

\* '20' in val and ('-' in val or '/' in val) and len(val) < 25
IsDateLike(val) ==
    /\ Contains(val, <<"2", "0">>)
    /\ (Contains(val, <<"-">>) \/ Contains(val, <<"/">>))
    /\ Len(val) < 25

\* a_val and not b_val
IsLabelOnly(sheet, r) == Truthy(Cell(sheet, r, 1)) /\ ~Truthy(Cell(sheet, r, 2))

\* the name loop from row r down to (not including) row stop:
\* recipe_name_row, 0 standing for None
RECURSIVE NameScan(_, _, _)
NameScan(sheet, r, stop) ==
    IF r <= stop THEN 0
    ELSE LET val == Strip(Str(Cell(sheet, r, 1)))
         IN  IF IsLabelOnly(sheet, r) /\ ~IsHeaderText(val) /\ ~IsDateLike(val)
             THEN r
             ELSE NameScan(sheet, r - 1, stop)

\* RecipeNameRow changed to look 5 rows up instead of 4
RecipeNameRow_FiveRows(sheet, rid_row) ==
    NameScan(sheet, rid_row - 1, Max(rid_row - 6, 0))

RecipeNameRow(sheet, rid_row) == NameScan(sheet, rid_row - 1, Max(rid_row - 5, 0))

\* the category loop from row r down to (not including) row stop: the row
\* whose value is assigned to current_category, 0 when none is assigned.
\* first is the code's  idx == 0.
RECURSIVE CategoryScan(_, _, _, _, _)
CategoryScan(sheet, r, stop, first, prev_rid_row) ==
    IF r <= stop THEN 0
    ELSE LET a_val == Cell(sheet, r, 1)
             b_val == Cell(sheet, r, 2)
             val == Strip(Str(a_val))
         IN  IF a_val = None /\ b_val = None
             THEN CategoryScan(sheet, r - 1, stop, first, prev_rid_row)
             ELSE IF IsLabelOnly(sheet, r)
             THEN IF IsHeaderText(val) \/ IsDateLike(val) THEN 0
                  ELSE IF StrToFloat(val).ok THEN 0
                  ELSE IF ~first
                  THEN IF r > prev_rid_row THEN r ELSE 0
                  ELSE r
             ELSE 0

\* CategoryRow changed to treat every marker as the first one
CategoryRow_IgnorePrevious(sheet, recipe_name_row, first, prev_rid_row) ==
    CategoryScan(sheet, recipe_name_row - 1, Max(recipe_name_row - 5, 0),
                 TRUE, prev_rid_row)

CategoryRow(sheet, recipe_name_row, first, prev_rid_row) ==
    CategoryScan(sheet, recipe_name_row - 1, Max(recipe_name_row - 5, 0),
                 first, prev_rid_row)

\* NextCategory changed to forget the category when none is resolved
NextCategory_Reset(sheet, cat_row, category) ==
    IF cat_row # 0 THEN Txt(Strip(Str(Cell(sheet, cat_row, 1)))) ELSE None

\* current_category after the category loop of one marker
NextCategory(sheet, cat_row, category) ==
    IF cat_row # 0 THEN Txt(Strip(Str(Cell(sheet, cat_row, 1)))) ELSE category

(***************************************************************************)
(* Worksheets the model reads                                              *)
(***************************************************************************)
MaxHeader == 2   \* rows between two recipes (above the first one) in Sheets
MaxItems == 3    \* rows below the 'Ingredients' label in ItemSheets

T_Soup == Txt(<<"S", "o", "u", "p">>)
T_Stew == Txt(<<"S", "t", "e", "w">>)
T_Mains == Txt(<<"M", "a", "i", "n", "s">>)
T_Salt == Txt(<<"S", "a", "l", "t">>)
T_Text == Txt(<<"n", "/", "a">>)

\* a row of the sheet: columns A, B, C and F, G, H, I (D and E empty)
Row(a, b, c, f, g, h, i9) == <<a, b, c, None, None, f, g, h, i9>>
LabelRow(a) == Row(a, None, None, None, None, None, None)
MetaRow(b, c, f, g) == Row(None, b, c, f, g, None, None)
ItemRow(a, b, c, quantity, yield_pct, yield_qty, cost) ==
    Row(a, b, c, quantity, yield_pct, yield_qty, cost)

EmptyRow == LabelRow(None)
MarkerRow == MetaRow(Txt(S_RecipeID), Txt(<<"R", "1">>), None, None)
IngredientsRow == LabelRow(Txt(S_Ingredients))
SNoRow == Row(Txt(S_SNo), Txt(<<"I", "D">>), Txt(<<"N", "a", "m", "e">>), None, None, None, None)
GoodItem == ItemRow(Num(1), Txt(<<"i", "1">>), T_Salt, Num(50), Num(80), Num(40), Num(3))

\* all sequences of at most n rows drawn from kinds
RowSeqs(kinds, n) == UNION {[1..m -> kinds] : m \in 0..n}

\* what may stand above a marker: empty rows, labels, a bare number
HeaderKinds == {EmptyRow, LabelRow(T_Soup), LabelRow(T_Mains), LabelRow(Num(7))}

\* label rows the name scan rejects or accepts, and rows with column B set
NameKinds ==
    {EmptyRow, LabelRow(T_Soup), LabelRow(Txt(S_BensFarmhouse)),
     LabelRow(Txt(<<"2", "0", "2", "6", "-", "0", "2", "-", "1", "0">>)), LabelRow(Txt(<<" ">>)),
     MetaRow(Txt(<<"x">>), None, None, None) }

Bodies == {<<>>, <<IngredientsRow>>, <<IngredientsRow, GoodItem>>}

Blocks(kinds) ==
    {h \o <<MarkerRow>> \o b : h \in RowSeqs(kinds, MaxHeader), b \in Bodies}

\* sheets of no, one or two recipes
ScanSheets ==
    RowSeqs(HeaderKinds, MaxHeader)
    \cup Blocks(HeaderKinds)
    \cup {x \o y : x \in Blocks(HeaderKinds), y \in Blocks(HeaderKinds)}

\* one recipe whose name row is found or not
NameSheets ==
    {h \o <<EmptyRow, MarkerRow, IngredientsRow, GoodItem>> :
        h \in RowSeqs(NameKinds, MaxHeader + 1)}

\* the rows that may stand below the 'Ingredients' label
ItemKinds ==
    {GoodItem,
     ItemRow(Txt(<<"2">>), None, T_Stew, Num(30), None, None, None),
     ItemRow(Num(3), Txt(<<"i", "3">>), T_Salt, Num(50), None, T_Text, None),
     ItemRow(Num(4), Txt(<<"i", "4">>), T_Salt, Num(20), None, Num(0), Num(0)),
     ItemRow(Num(5), Txt(<<"i", "5">>), T_Salt, T_Text, T_Text, None, None),
     ItemRow(Num(6), Txt(<<"i", "6">>), T_Salt, Num(10), None, None, T_Text),
     ItemRow(None, Txt(<<"i", "7">>), None, Num(60), None, None, None),
     ItemRow(None, None, T_Salt, None, None, None, None),
     ItemRow(T_Text, Txt(<<"i", "8">>), T_Salt, Num(70), None, None, None),
     EmptyRow}

ItemSheets ==
    {<<LabelRow(T_Soup), MarkerRow, IngredientsRow>> \o sno \o rows
        \o <<LabelRow(T_Stew), MarkerRow, IngredientsRow, GoodItem>> :
        sno \in {<<>>, <<SNoRow>>}, rows \in RowSeqs(ItemKinds, MaxItems)}

\* values of the 'Per Serving Weight' and 'Total Yield' cells
ServingCells == {None, Num(0), Num(-50), Num(100), Num(8), Num(3), T_Text, Txt(<<"1", "0", "0">>)}
YieldCells == {None, Num(0), Num(500), Num(25), Num(-500), T_Text, Txt(<<" ", "5", "0", "0", " ">>)}

MetaSheets ==
    {<<LabelRow(T_Mains), LabelRow(T_Soup),
       MetaRow(Txt(S_RecipeID), Txt(<<"R", "1">>), Txt(S_Calories), cal),
       MetaRow(Txt(S_TotalYield), ty, Txt(S_PerServingWeight), psw),
       MetaRow(Txt(S_Description), T_Stew, None, None),
       MetaRow(Txt(S_PreparationTime), prep, None, None),
       IngredientsRow>> \o items :
        cal \in {None, Num(350), T_Text}, ty \in YieldCells, psw \in ServingCells,
        prep \in {Num(15), T_Text},
        items \in {<<>>, <<GoodItem>>,
                   <<ItemRow(Num(1), None, T_Salt, None, None, None, None)>>}}

\* the end-to-end sheet: title rows, category at row 5, name at row 8, marker
\* at row 10, metadata in rows 10-14, 'Ingredients' at row 15, numbered rows
\* 16-18, an empty row 19 and possibly more rows below it
T_LentilSoup == Txt(<<"L", "e", "n", "t", "i", "l", " ", "S", "o", "u", "p">>)
T_Soups == Txt(<<"S", "o", "u", "p", "s">>)
T_HeartySoup == Txt(<<"H", "e", "a", "r", "t", "y", " ", "s", "o", "u", "p">>)

EndToEndTops ==
    {<<EmptyRow, EmptyRow, EmptyRow, EmptyRow>>,
     <<LabelRow(Txt(S_BensFarmhouse)), LabelRow(Txt(<<"2", "0", "2", "6", "-", "0", "2", "-", "1", "0">>)), EmptyRow, EmptyRow>>,
     <<EmptyRow, EmptyRow, LabelRow(T_Mains), EmptyRow>>}

\* rows 11-14: 'Total Yield' at row yp, 'Description' at row dp, the
\* preparation time and an empty row in the two rows left
EndToEndMeta(yp, dp, yield_cell) ==
    LET others == {r \in 11..14 : r # yp /\ r # dp}
        first == CHOOSE r \in others : \A o \in others : r <= o
    IN  [r \in 1..4 |->
            IF r + 10 = yp THEN MetaRow(Txt(S_TotalYield), yield_cell, None, None)
            ELSE IF r + 10 = dp THEN MetaRow(Txt(S_Description), T_HeartySoup, None, None)
            ELSE IF r + 10 = first
            THEN MetaRow(Txt(S_PreparationTime), Num(15), Txt(S_Calories), Num(350))
            ELSE EmptyRow]

EndToEndItems ==
    {GoodItem,
     ItemRow(Txt(<<"2">>), None, T_Stew, Num(30), None, None, None),
     ItemRow(Num(4), Txt(<<"i", "4">>), T_Salt, Num(20), None, Num(0), Num(0))}

EndToEndSheets ==
    {top \o <<LabelRow(T_Soups), EmptyRow, EmptyRow, LabelRow(T_LentilSoup), EmptyRow,
              MarkerRow>>
         \o EndToEndMeta(yp, 11 + ((yp - 11 + d) % 4), yc) \o <<IngredientsRow>> \o items
         \o <<EmptyRow>> \o tail :
        top \in EndToEndTops,
        yp \in 11..14, d \in 1..3,
        yc \in {Num(500), Txt(<<"5", "0", "0">>)},
        items \in [1..3 -> EndToEndItems], tail \in {<<>>, <<GoodItem>>}}

\* what may stand above a name row: empty rows, a label, a bare number, the
\* title, a date, a row with column B set
CategoryKinds ==
    {EmptyRow, LabelRow(T_Mains), LabelRow(Num(7)), LabelRow(Txt(S_BensFarmhouse)),
     LabelRow(Txt(<<"1", "0", "/", "0", "2", "/", "2", "0", "2", "6">>)), MetaRow(Txt(<<"x">>), None, None, None)}

\* the rows the category scan walks over without stopping or stops at with
\* an accepted label or a number
WindowKinds == {EmptyRow, LabelRow(T_Mains), LabelRow(Num(7))}

\* rows above the name of a recipe, which is the first one or comes after a
\* recipe of category 'Soups', and whose marker may be followed at once by
\* another marker; and taller stacks of rows above the name of a first recipe
CategorySheets ==
    {before \o above \o <<LabelRow(T_Stew), MarkerRow>> \o again
         \o <<IngredientsRow, GoodItem>> :
        before \in {<<>>, <<LabelRow(T_Soups), LabelRow(T_Soup), MarkerRow>>},
        above \in RowSeqs(CategoryKinds, MaxHeader + 1),
        again \in {<<>>, <<MarkerRow>>}}
    \cup
    {above \o <<LabelRow(T_Stew), MarkerRow, IngredientsRow, GoodItem>> :
        above \in RowSeqs(WindowKinds, MaxHeader + 3)}

\* n empty rows
EmptyRows(n) == [r \in 1..n |-> EmptyRow]

\* numbers of empty rows between a marker and what follows: with 10 of them
\* the next row is the 12th row counted from the marker, with 11 the 13th
GapRows == {0, 1, 10, 11}

\* what follows the gap: nothing, the label, the label with white space
\* around it, the label and the 'S.No' sub-header, a longer text
SectionKinds ==
    {<<>>,
     <<IngredientsRow, GoodItem>>,
     <<LabelRow(Txt(<<" ", "I", "n", "g", "r", "e", "d", "i", "e", "n", "t", "s", " ">>)), GoodItem>>,
     <<IngredientsRow, SNoRow, GoodItem>>,
     <<LabelRow(Txt(<<"I", "n", "g", "r", "e", "d", "i", "e", "n", "t", "s", ":">>)), GoodItem>>}

\* a named recipe, after nothing or after a recipe of category 'Mains', with
\* or without a category of its own, whose 'Ingredients' label is near, far
\* or missing, followed by nothing or by another recipe
SectionSheets ==
    {before \o first \o <<MarkerRow>> \o EmptyRows(gap) \o section \o next :
        before \in {<<>>, <<LabelRow(T_Mains), LabelRow(T_Salt), MarkerRow,
                            IngredientsRow, GoodItem>>},
        first \in {<<LabelRow(T_Soup)>>, <<LabelRow(T_Soups), LabelRow(T_Soup)>>},
        gap \in GapRows,
        section \in SectionKinds,
        next \in {<<>>, <<LabelRow(T_Stew), MarkerRow, IngredientsRow, GoodItem>>}}

Sheets ==
    ScanSheets \cup NameSheets \cup ItemSheets \cup MetaSheets \cup EndToEndSheets
        \cup CategorySheets \cup SectionSheets

(***************************************************************************)
(* parse_excel as a state machine: pass 1, then one step per marker        *)
(***************************************************************************)
InitIdle ==
    /\ total = 0 /\ batch_size = 1 /\ i = 0 /\ j = 0 /\ inserted = 0
    /\ errors = 0 /\ requests = <<>>
    /\ nutrient = <<>> /\ db = <<>> /\ matched = <<>> /\ k = 1 /\ updated = 0
    /\ argv = {} /\ response = None

InitParse ==
    /\ script = "parse"
    /\ pc = "pass1"
    /\ ws \in Sheets
    /\ max_row = Len(ws)
    /\ recipe_id_rows = <<>>
    /\ idx = 1
    /\ current_category = None
    /\ recipes = <<>>
    /\ resolved = <<>>
    /\ InitIdle

persistVars == <<insertVars, enrichVars, errors, requests, gateVars>>

Pass1 ==
    /\ script = "parse" /\ pc = "pass1"
    /\ recipe_id_rows' = MarkerRows(ws, 1, max_row)
    /\ pc' = "pass2"
    /\ UNCHANGED <<script, ws, max_row, idx, current_category, recipes, resolved,
                   persistVars>>

\* one iteration of  for idx, rid_row in enumerate(recipe_id_rows)
MarkerStep ==
    /\ script = "parse" /\ pc = "pass2" /\ idx <= Len(recipe_id_rows)
    /\ LET rid_row == recipe_id_rows[idx]
           recipe_name_row == RecipeNameRow(ws, rid_row)
           recipe_name == Strip(Str(Cell(ws, recipe_name_row, 1)))
           first == (idx = 1)
           prev_rid_row == IF first THEN 0 ELSE recipe_id_rows[idx - 1]
           cat_row == CategoryRow(ws, recipe_name_row, first, prev_rid_row)
           category == NextCategory(ws, cat_row, current_category)
           recipe == parse_recipe(ws, recipe_name, rid_row, max_row, category)
       IN  IF recipe_name_row = 0
           THEN /\ resolved' = Append(resolved,
                    [rid_row |-> rid_row, name_row |-> 0, cat_row |-> 0,
                     emitted |-> FALSE])
                /\ UNCHANGED <<current_category, recipes, pc>>
           ELSE /\ current_category' = category
                /\ resolved' = Append(resolved,
                    [rid_row |-> rid_row, name_row |-> recipe_name_row,
                     cat_row |-> cat_row, emitted |-> recipe.kind = "recipe"])
                /\ recipes' = IF recipe.kind = "recipe"
                              THEN Append(recipes, recipe) ELSE recipes
                /\ pc' = IF recipe.kind = "raise" THEN "raised" ELSE pc
    /\ idx' = idx + 1
    /\ UNCHANGED <<script, ws, max_row, recipe_id_rows, persistVars>>

\* return recipes
ParseReturn ==
    /\ script = "parse" /\ pc = "pass2" /\ idx > Len(recipe_id_rows)
    /\ pc' = "returned"
    /\ UNCHANGED <<script, parseVars, persistVars>>

ParseNext == Pass1 \/ MarkerStep \/ ParseReturn

ParseSpec == InitParse /\ [][ParseNext]_vars

(***************************************************************************)
(* The record store: every request ends in a response, an HTTP error       *)
(* (urllib.error.HTTPError) or another failure (urllib.error.URLError)     *)
(***************************************************************************)
Outcomes == {"ok", "http_error", "url_error"}

Request(kind, first, count, outcome, payload) ==
    [kind |-> kind, first |-> first, count |-> count, outcome |-> outcome,
     payload |-> payload]

NoPayload == [serving_size_grams |-> 0, scale_factor |-> 0, total_yield_grams |-> 0]

(***************************************************************************)
(* The confirmation gate of both main functions                            *)
(***************************************************************************)
Flags == {"--dry-run", "--yes"}

UpperCase ==
    <<"A", "B", "C", "D", "E", "F", "G", "H", "I", "J", "K", "L", "M",
      "N", "O", "P", "Q", "R", "S", "T", "U", "V", "W", "X", "Y", "Z">>

LowerCase ==
    <<"a", "b", "c", "d", "e", "f", "g", "h", "i", "j", "k", "l", "m",
      "n", "o", "p", "q", "r", "s", "t", "u", "v", "w", "x", "y", "z">>

LowerChar(c) ==
    IF \E p \in 1..26 : UpperCase[p] = c
    THEN LowerCase[CHOOSE p \in 1..26 : UpperCase[p] = c]
    ELSE c

\* str.lower()
Lower(s) == [p \in 1..Len(s) |-> LowerChar(s[p])]

\* what the operator may type at the prompt
Responses ==
    {<<"y", "e", "s">>, <<"y">>, <<"Y", "E", "S">>, <<"Y">>, <<"Y", "e", "s">>, <<"n", "o">>, <<"n">>, <<>>, <<"y", "e">>, <<"y", "e", "s", " ">>, <<"y", "e", "a", "h">>}

\* response.lower() in ('yes', 'y')
Confirms(answer) == Lower(answer) \in {<<"y", "e", "s">>, <<"y">>}

\* main reaches input(): neither '--dry-run' nor '--yes' in sys.argv
Prompts(args) == "--dry-run" \notin args /\ "--yes" \notin args

\* GateOpens changed to test '--yes' before '--dry-run'
GateOpens_YesFirst(args, answer) ==
    "--yes" \in args \/ ("--dry-run" \notin args /\ Confirms(answer))

\* main goes on to write: no '--dry-run', and '--yes' or a confirming answer
GateOpens(args, answer) ==
    "--dry-run" \notin args /\ ("--yes" \in args \/ Confirms(answer))

\* the gate of one main: answer is what input() returns when it is called
Gate(open_pc) ==
    /\ pc = "gate"
    /\ \E answer \in Responses :
        /\ response' = IF Prompts(argv) THEN Txt(answer) ELSE response
        /\ pc' = IF GateOpens(argv, answer) THEN open_pc ELSE "exit"
    /\ UNCHANGED <<script, parseVars, insertVars, enrichVars, errors, requests, argv>>

\* the importer's main between parse_excel and insert_recipes_batch
ImportGate == script = "insert" /\ Gate("batch")

\* the enricher's main between the matching and the update loop
EnrichGate == script = "enrich" /\ Gate("update")

(***************************************************************************)
(* insert_recipes_batch(recipes, batch_size)                               *)
(***************************************************************************)
MaxRecipes == 4   \* len(recipes) of a modelled call
MaxBatch == 3     \* batch_size of a modelled call

\* len(recipes[i:i + batch_size])
BatchLen(n, start, size) == Min(size, n - start)

\* the counters after the batch request
BatchCounters(outcome, len, ins, errs) ==
    IF outcome = "ok" THEN [inserted |-> ins + len, errors |-> errs]
    ELSE IF outcome = "http_error" THEN [inserted |-> ins, errors |-> errs + len]
    ELSE [inserted |-> ins, errors |-> errs]

\* SingleCounters changed to leave errors alone when the request succeeds
SingleCounters_KeepErrors(outcome, ins, errs) ==
    IF outcome = "ok" THEN [inserted |-> ins + 1, errors |-> errs]
    ELSE [inserted |-> ins, errors |-> errs]

\* the counters after a one-by-one request
SingleCounters(outcome, ins, errs) ==
    IF outcome = "ok" THEN [inserted |-> ins + 1, errors |-> errs - 1]
    ELSE [inserted |-> ins, errors |-> errs]

\* where the function is after a request: only HTTPError is caught
AfterBatch(outcome) ==
    IF outcome = "ok" THEN "batch"
    ELSE IF outcome = "http_error" THEN "single"
    ELSE "raised"

\* NextSingle changed to send a recipe again when its request failed
NextSingle_RetryOnError(pos, outcome) ==
    IF outcome = "http_error" THEN pos ELSE pos + 1

\* for recipe in clean_batch: the position after one request of the loop
NextSingle(pos, outcome) == pos + 1

AfterSingle(outcome, pos, len) ==
    IF outcome = "url_error" THEN "raised"
    ELSE IF pos < len THEN "single"
    ELSE "batch"

InitInsert ==
    /\ script = "insert"
    /\ pc = "gate"
    /\ total \in 0..MaxRecipes
    /\ batch_size \in 1..MaxBatch
    /\ i = 0 /\ j = 0 /\ inserted = 0 /\ errors = 0
    /\ requests = <<>>
    /\ ws = <<>> /\ max_row = 0 /\ recipe_id_rows = <<>> /\ idx = 1
    /\ current_category = None /\ recipes = <<>> /\ resolved = <<>>
    /\ nutrient = <<>> /\ db = <<>> /\ matched = <<>> /\ k = 1 /\ updated = 0
    /\ argv \in SUBSET Flags /\ response = None

\* one iteration of  for i in range(0, total, batch_size)  up to its request
InsertBatch ==
    /\ script = "insert" /\ pc = "batch" /\ i < total
    /\ \E outcome \in Outcomes :
        LET len == BatchLen(total, i, batch_size)
            c == BatchCounters(outcome, len, inserted, errors)
        IN  /\ requests' = Append(requests, Request("batch", i, len, outcome, NoPayload))
            /\ inserted' = c.inserted
            /\ errors' = c.errors
            /\ pc' = AfterBatch(outcome)
            /\ i' = IF outcome = "ok" THEN i + batch_size ELSE i
            /\ j' = 0
    /\ UNCHANGED <<script, parseVars, total, batch_size, enrichVars, gateVars>>

\* one iteration of  for recipe in clean_batch  after a failed batch
InsertSingle ==
    /\ script = "insert" /\ pc = "single"
    /\ \E outcome \in Outcomes :
        LET len == BatchLen(total, i, batch_size)
            c == SingleCounters(outcome, inserted, errors)
            pos == NextSingle(j, outcome)
        IN  /\ requests' = Append(requests, Request("single", i + j, 1, outcome, NoPayload))
            /\ inserted' = c.inserted
            /\ errors' = c.errors
            /\ pc' = AfterSingle(outcome, pos, len)
            /\ j' = pos
            /\ i' = IF AfterSingle(outcome, pos, len) = "batch"
                    THEN i + batch_size ELSE i
    /\ UNCHANGED <<script, parseVars, total, batch_size, enrichVars, gateVars>>

\* return inserted, errors
InsertReturn ==
    /\ script = "insert" /\ pc = "batch" /\ i >= total
    /\ pc' = "done"
    /\ UNCHANGED <<script, parseVars, insertVars, enrichVars, errors, requests, gateVars>>

(***************************************************************************)
(* The enricher: parse_nutrient_excel, fetch_recipes_needing_nutrition,    *)
(* the matching and the update loop of main, build_update_payload          *)
(***************************************************************************)
MaxDb == 3   \* recipes the record store returns

\* serving_wt = float(serving_weight) if serving_weight else 100
ServingWt(serving_weight) ==
    IF Truthy(serving_weight) THEN Float(serving_weight).n ELSE 100

\* parse_nutrient_excel raises ValueError on a serving weight that is no number
NutrientRaises(rows) ==
    \E p \in 1..Len(rows) :
        Truthy(rows[p].serving_weight) /\ ~Float(rows[p].serving_weight).ok

\* parse_nutrient_excel: one entry per row, serving_weight defaulted
parse_nutrient_excel(rows) ==
    [p \in 1..Len(rows) |->
        [name |-> rows[p].name, category |-> rows[p].category,
         serving_weight |-> ServingWt(rows[p].serving_weight)]]

\* NeedsNutrition changed to return every recipe
NeedsNutrition_Always(r) == TRUE

\* not per_serving, after  (r.get('nutrition') or {}).get('per_serving') or {}
NeedsNutrition(r) == r.nutrition # "per_serving_full"

\* fetch_recipes_needing_nutrition: the positions in db of the rows it returns
RECURSIVE Missing(_, _)
Missing(rows, p) ==
    IF p > Len(rows) THEN <<>>
    ELSE IF NeedsNutrition(rows[p]) THEN <<p>> \o Missing(rows, p + 1)
    ELSE Missing(rows, p + 1)

\* the nutrient entry matched with recipe r, 0 when unmatched: by
\* (name, category), else the first entry of that name
MatchOf(nutrient_data, r) ==
    LET byKey == {p \in 1..Len(nutrient_data) :
                    /\ nutrient_data[p].name = r.name
                    /\ nutrient_data[p].category = r.category}
        byName == {p \in 1..Len(nutrient_data) : nutrient_data[p].name = r.name}
    IN  IF byKey # {} THEN CHOOSE p \in byKey : TRUE
        ELSE IF byName # {} THEN CHOOSE p \in byName : \A q \in byName : p <= q
        ELSE 0

\* the matched list of main: (position in db, nutrient entry) pairs
RECURSIVE Matched(_, _, _)
Matched(rows, nutrient_data, missing) ==
    IF missing = <<>> THEN <<>>
    ELSE LET r == rows[Head(missing)]
             m == MatchOf(nutrient_data, r)
             rest == Matched(rows, nutrient_data, Tail(missing))
         IN  IF m # 0
             THEN <<[recipe |-> Head(missing), info |-> nutrient_data[m]]>> \o rest
             ELSE rest

\* existing_serving.get('total_yield_grams', 100)
ExistingYield(r) == IF r.total_yield_grams = None THEN 100 ELSE r.total_yield_grams.n

\* build_update_payload: the serving part of the PATCH body
build_update_payload(r, nutrient_info) ==
    LET serving_wt == nutrient_info.serving_weight
        total_yield == ExistingYield(r)
    IN  [serving_size_grams |-> serving_wt,
         scale_factor |-> ScaleFactor(total_yield, serving_wt),
         total_yield_grams |-> total_yield]

\* the counters of the update loop after one update_recipe call
UpdateCounters(outcome, upd, errs) ==
    IF outcome = "ok" THEN [updated |-> upd + 1, errors |-> errs]
    ELSE IF outcome = "http_error" THEN [updated |-> upd, errors |-> errs + 1]
    ELSE [updated |-> upd, errors |-> errs]

\* AfterUpdate changed to let an HTTP error leave the loop
AfterUpdate_StopOnError(outcome) == IF outcome = "ok" THEN "update" ELSE "raised"

\* where main is after one update_recipe call: only HTTPError is caught
AfterUpdate(outcome) == IF outcome = "url_error" THEN "raised" ELSE "update"

WeightCells == {None, Num(0), Num(100), Num(8), Num(3), Num(-50), T_Text}

NutrientSheets ==
    {<<[name |-> <<"S", "o", "u", "p">>, category |-> <<"M", "a", "i", "n", "s">>, serving_weight |-> w],
       [name |-> <<"S", "t", "e", "w">>, category |-> <<"S", "i", "d", "e", "s">>, serving_weight |-> Num(100)]>> :
        w \in WeightCells}

DbRows ==
    {[name |-> <<"S", "o", "u", "p">>, category |-> <<"M", "a", "i", "n", "s">>, nutrition |-> "per_serving_empty",
      total_yield_grams |-> Num(500)],
     [name |-> <<"S", "o", "u", "p">>, category |-> <<"M", "a", "i", "n", "s">>, nutrition |-> "per_serving_full",
      total_yield_grams |-> Num(500)],
     [name |-> <<"S", "t", "e", "w">>, category |-> <<>>, nutrition |-> "null",
      total_yield_grams |-> Num(25)],
     [name |-> <<"S", "t", "e", "w">>, category |-> <<"S", "i", "d", "e", "s">>, nutrition |-> "per_serving_null",
      total_yield_grams |-> None],
     [name |-> <<"S", "a", "l", "t">>, category |-> <<"M", "a", "i", "n", "s">>, nutrition |-> "per_serving_empty",
      total_yield_grams |-> Num(500)]}

InitEnrich ==
    /\ script = "enrich"
    /\ pc = "start"
    /\ nutrient \in NutrientSheets
    /\ db \in RowSeqs(DbRows, MaxDb)
    /\ matched = <<>> /\ k = 1 /\ updated = 0 /\ errors = 0
    /\ requests = <<>>
    /\ ws = <<>> /\ max_row = 0 /\ recipe_id_rows = <<>> /\ idx = 1
    /\ current_category = None /\ recipes = <<>> /\ resolved = <<>>
    /\ total = 0 /\ batch_size = 1 /\ i = 0 /\ j = 0 /\ inserted = 0
    /\ argv \in SUBSET Flags /\ response = None

\* main up to the update loop: read the nutrient sheet, fetch, match
EnrichStart ==
    /\ script = "enrich" /\ pc = "start"
    /\ IF NutrientRaises(nutrient)
       THEN pc' = "raised" /\ matched' = matched
       ELSE LET m == Matched(db, parse_nutrient_excel(nutrient), Missing(db, 1))
            IN  /\ matched' = m
                /\ pc' = IF m = <<>> THEN "done" ELSE "gate"
    /\ UNCHANGED <<script, parseVars, insertVars, nutrient, db, k, updated,
                   errors, requests, gateVars>>

\* one iteration of  for i, (recipe, nutrient_info) in enumerate(matched)
UpdateStep ==
    /\ script = "enrich" /\ pc = "update" /\ k <= Len(matched)
    /\ \E outcome \in Outcomes :
        LET recipe == matched[k].recipe
            update_data == build_update_payload(db[recipe], matched[k].info)
            c == UpdateCounters(outcome, updated, errors)
        IN  /\ requests' = Append(requests, Request("patch", recipe, 1, outcome, update_data))
            /\ updated' = c.updated
            /\ errors' = c.errors
            /\ pc' = AfterUpdate(outcome)
    /\ k' = k + 1
    /\ UNCHANGED <<script, parseVars, insertVars, nutrient, db, matched, gateVars>>

\* the end of main
EnrichReturn ==
    /\ script = "enrich" /\ pc = "update" /\ k > Len(matched)
    /\ pc' = "done"
    /\ UNCHANGED <<script, parseVars, insertVars, enrichVars, errors, requests, gateVars>>

PersistNext ==
    ImportGate \/ InsertBatch \/ InsertSingle \/ InsertReturn
    \/ EnrichStart \/ EnrichGate \/ UpdateStep \/ EnrichReturn

InitPersist == InitInsert \/ InitEnrich

PersistSpec == InitPersist /\ [][PersistNext]_vars

\* a sequential script keeps running until it returns or raises
PersistFair == PersistSpec /\ WF_vars(PersistNext)

Init == InitParse \/ InitPersist

Next == ParseNext \/ PersistNext

Spec == Init /\ [][Next]_vars

(***************************************************************************)
(* Properties of parse_excel and parse_recipe                              *)
(***************************************************************************)
\* the grid rows the Line Items of a Record were built from, in list order
ItemRows(rec) == [q \in 1..Len(rec.ingredients) |-> rec.ingredients[q].src_row]

\* a row that ends the line-item scan: column A holds something that is no
\* ordinal, or columns A, B and C are all empty
EndsItems(r) ==
    LET a_val == Cell(ws, r, 1)
    IN  \/ a_val # None /\ ~IsOrdinal(a_val)
        \/ a_val = None /\ ~Truthy(Cell(ws, r, 2)) /\ ~Truthy(Cell(ws, r, 3))

\* the first row at or below start that ends the scan, max_row + 1 if none
ItemsEnd(start) ==
    CHOOSE e \in start..(max_row + 1) :
        /\ e = max_row + 1 \/ EndsItems(e)
        /\ \A r \in start..(e - 1) : ~EndsItems(r)

\* C1 as stated: the Line Items of every Record are a contiguous run of rows
\* from the first line-item row, and no row at or below the first row with an
\* empty column A contributes a Line Item (whatever its columns B and C hold).
C1_ContiguousUntilEmptyOrdinal ==
    \A p \in 1..Len(recipes) :
        LET rec == recipes[p]
            start == IngredientsStart(ws, rec.rid_row, max_row)
            rows == ItemRows(rec)
        IN  /\ \A q \in 1..Len(rows) : rows[q] = start + q - 1
            /\ \A r \in start..max_row :
                   Cell(ws, r, 1) = None => \A q \in 1..Len(rows) : rows[q] < r

\* C1 amended: the Line Items of every Record are, in grid order, exactly the
\* rows with a non-empty column A between the first line-item row and the
\* first row that ends the scan (column A non-empty and no ordinal, or
\* columns A, B and C all empty, or the end of the grid); a row with an empty
\* column A and a value in column B or C is skipped and the scan goes on.
C1_ItemsUpToFirstEndRow ==
    \A p \in 1..Len(recipes) :
        LET rec == recipes[p]
            start == IngredientsStart(ws, rec.rid_row, max_row)
            rows == ItemRows(rec)
            stop == ItemsEnd(start)
            numbered == {r \in start..(stop - 1) : Cell(ws, r, 1) # None}
        IN  /\ {rows[q] : q \in 1..Len(rows)} = numbered
            /\ \A q \in 1..(Len(rows) - 1) : rows[q] < rows[q + 1]
            /\ \A q \in 1..Len(rows) :
                   rec.ingredients[q].name =
                       (IF Truthy(Cell(ws, rows[q], 3))
                        THEN Strip(Str(Cell(ws, rows[q], 3))) ELSE <<>>)

\* C1 witness: a Record holds a Line Item from below a skipped row
C1_SkippedRowWitness ==
    \E p \in 1..Len(recipes) :
        \E q \in 1..(Len(recipes[p].ingredients) - 1) :
            ItemRows(recipes[p])[q + 1] > ItemRows(recipes[p])[q] + 1

\* the entry of the history for the marker a Record was built from
MarkerIndex(rec) == CHOOSE m \in 1..Len(resolved) : resolved[m].rid_row = rec.rid_row

\* C2: the category of every Record is the text of the category row resolved
\* most recently at or before its marker, and the empty string when no
\* marker up to it resolved one; a marker that resolves none inherits.
C2_StickyCategory ==
    \A p \in 1..Len(recipes) :
        LET rec == recipes[p]
            m == MarkerIndex(rec)
            hits == {q \in 1..m : resolved[q].cat_row # 0}
            last == CHOOSE q \in hits : \A h \in hits : h <= q
        IN  /\ \E x \in 1..Len(resolved) : resolved[x].rid_row = rec.rid_row
            /\ rec.category =
                   (IF hits = {} THEN <<>>
                    ELSE Strip(Str(Cell(ws, resolved[last].cat_row, 1))))

\* C2 witness: two Records, the first with a resolved category, the second
\* from a later marker, no category row resolved after the first
C2_InheritedWitness ==
    \E m1, m2 \in 1..Len(resolved) :
        /\ m1 < m2
        /\ resolved[m1].emitted /\ resolved[m2].emitted
        /\ resolved[m1].cat_row # 0
        /\ \A m \in (m1 + 1)..m2 : resolved[m].cat_row = 0
        /\ \E p \in 1..Len(recipes) :
               /\ recipes[p].rid_row = resolved[m2].rid_row
               /\ recipes[p].category # <<>>

\* the marker rows of the sheet
Markers ==
    {r \in 1..max_row :
        Truthy(Cell(ws, r, 2)) /\ Contains(Str(Cell(ws, r, 2)), S_RecipeID)}

\* a label-only row the name scan accepts
AcceptedLabel(r) ==
    /\ Truthy(Cell(ws, r, 1)) /\ ~Truthy(Cell(ws, r, 2))
    /\ ~IsHeaderText(Strip(Str(Cell(ws, r, 1))))
    /\ ~IsDateLike(Strip(Str(Cell(ws, r, 1))))

\* one of the 4 rows strictly above marker m is an accepted label-only row
HasName(m) == \E r \in Max(m - 4, 1)..(m - 1) : AcceptedLabel(r)

\* C3: every Record comes from a marker row with an accepted label-only row
\* in the 4 rows above it, the Records are in ascending marker order with at
\* most one per marker, so there are at most as many Records as markers, as
\* many only if every marker resolves a name, and none without markers.
C3_AtMostOneRecordPerNamedMarker ==
    /\ \A p \in 1..Len(recipes) :
           recipes[p].rid_row \in Markers /\ HasName(recipes[p].rid_row)
    /\ \A p, q \in 1..Len(recipes) :
           p < q => recipes[p].rid_row < recipes[q].rid_row
    /\ Len(recipes) <= Cardinality(Markers)
    /\ (pc = "returned" /\ Len(recipes) = Cardinality(Markers)
            => \A m \in Markers : HasName(m))
    /\ (Markers = {} => recipes = <<>>)

\* C3 witness: the scan returned Records and skipped a marker without a name
C3_SkippedMarkerWitness ==
    /\ pc = "returned"
    /\ recipes # <<>>
    /\ \E m \in Markers : ~HasName(m)

\* C4 as stated: no cell content makes parse_excel raise; the scan always
\* runs to completion.
C4_ScanNeverAborts == ~(script = "parse" /\ pc = "raised")

\* C5 as stated: the effective quantity of every Line Item is the
\* yield-adjusted quantity if present and a number, else the raw quantity if
\* present and a number, else 0 (present read as the code reads it:
\* neither empty nor zero).
C5_EffectiveQuantity ==
    \A p \in 1..Len(recipes) :
        \A q \in 1..Len(recipes[p].ingredients) :
            LET ing == recipes[p].ingredients[q]
                quantity == Cell(ws, ing.src_row, 6)
                yield_qty == Cell(ws, ing.src_row, 8)
                expected ==
                    IF Truthy(yield_qty) /\ Float(yield_qty).ok
                    THEN Float(yield_qty).n
                    ELSE IF Truthy(quantity) /\ Float(quantity).ok
                    THEN Float(quantity).n
                    ELSE 0
            IN  /\ ing.quantity = expected
                /\ ing.quantity_in_grams = expected
                /\ ing.yield_quantity_in_grams = expected

\* the per-serving weight the metadata scan of a Record's marker found
PerServingInput(rec) ==
    MetaScan(MetaInit, ws, rec.rid_row,
             Min(rec.rid_row + 8, max_row + 1)).per_serving_weight

\* C6 as stated: serving_size_grams is 100 when the per-serving weight was
\* absent, zero or negative, the parsed weight otherwise, and so always
\* strictly positive.
C6_ServingSizeDefault ==
    \A p \in 1..Len(recipes) :
        LET rec == recipes[p]
            w == PerServingInput(rec)
        IN  /\ rec.serving_size_grams > 0
            /\ rec.serving_size_grams = (IF w = None \/ w.n <= 0 THEN 100 ELSE w.n)

Abs(x) == IF x < 0 THEN 0 - x ELSE x

\* s hundredths is total / serving rounded to two decimals (a tie to even)
IsRounded(s, total_yield, serving) ==
    LET d == Abs(100 * total_yield - s * serving)
    IN  2 * d <= serving /\ (2 * d = serving => s % 2 = 0)

\* the PATCH requests sent so far
IsPatch(r) == r.kind = "patch"
Patches == SelectSeq(requests, IsPatch)

ScaleAgrees(u) ==
    /\ u.serving_size_grams > 0 =>
           IsRounded(u.scale_factor, u.total_yield_grams, u.serving_size_grams)
    /\ u.serving_size_grams <= 0 => u.scale_factor = 100
    /\ (u.total_yield_grams = 500 /\ u.serving_size_grams = 100)
           => u.scale_factor = 500

C12_EndToEnd ==
    (script = "parse" /\ pc = "returned" /\ ws \in EndToEndSheets) =>
        /\ Len(recipes) = 1
        /\ recipes[1].name = <<"L", "e", "n", "t", "i", "l", " ", "S", "o", "u", "p">>
        /\ recipes[1].category = <<"S", "o", "u", "p", "s">>
        /\ recipes[1].total_yield_grams = 500
        /\ Len(recipes[1].ingredients) = 3
        /\ ItemRows(recipes[1]) = <<16, 17, 18>>

\* C12 witness: parse_excel returned on an end-to-end sheet that has a
\* numbered row below the empty row 19
C12_EndToEndWitness ==
    /\ script = "parse" /\ pc = "returned"
    /\ ws \in EndToEndSheets
    /\ max_row = 20
    /\ recipes # <<>>

\* the label of row r parses as a number
IsNumericLabel(r) == StrToFloat(Strip(Str(Cell(ws, r, 1)))).ok

\* the accepted label-only rows among the 4 rows above name row nr
AcceptedAbove(nr) == {r \in Max(nr - 4, 1)..(nr - 1) : AcceptedLabel(r)}

\* the first of them scanning upward
NearestAccepted(nr) ==
    CHOOSE r \in AcceptedAbove(nr) : \A o \in AcceptedAbove(nr) : o <= r

\* marker m is the first marker or row r lies below the previous marker
AfterPreviousMarker(m, r) == m = 1 \/ r > resolved[m - 1].rid_row

\* the markers handled so far whose scan overwrote the category
Overwrites == {m \in 1..Len(resolved) : resolved[m].cat_row # 0}

\* C13: for every marker with a name row, scanning upward over the 4 rows
\* above the name row: the category is overwritten only by the first accepted
\* label-only row, only if that row is no number and the marker is the first
\* one or the row lies strictly below the previous marker; a first accepted
\* row that parses as a number leaves the category unchanged; with no
\* accepted row it is unchanged; an accepted row with only empty rows between
\* it and the name row that meets the condition does overwrite it; and the
\* current category is the text of the row of the last overwrite.
C13_CategoryResolution ==
    /\ \A m \in 1..Len(resolved) :
           LET nr == resolved[m].name_row
               cr == resolved[m].cat_row
               near == NearestAccepted(nr)
           IN  /\ nr = 0 => cr = 0
               /\ (nr # 0 /\ AcceptedAbove(nr) = {}) => cr = 0
               /\ (nr # 0 /\ cr # 0) =>
                      /\ cr = near
                      /\ ~IsNumericLabel(near)
                      /\ AfterPreviousMarker(m, near)
               /\ (nr # 0 /\ AcceptedAbove(nr) # {}) =>
                      /\ IsNumericLabel(near) => cr = 0
                      /\ ~AfterPreviousMarker(m, near) => cr = 0
                      /\ ( /\ ~IsNumericLabel(near)
                           /\ AfterPreviousMarker(m, near)
                           /\ \A r \in (near + 1)..(nr - 1) :
                                  Cell(ws, r, 1) = None /\ Cell(ws, r, 2) = None )
                             => cr = near
    /\ script = "parse" =>
           current_category =
               (IF Overwrites = {} THEN None
                ELSE LET last == CHOOSE m \in Overwrites : \A o \in Overwrites : o <= m
                     IN  Txt(Strip(Str(Cell(ws, resolved[last].cat_row, 1)))))

\* C13 witness: a marker that is not the first one, whose first accepted
\* label-only row above its name row is no number and lies above the marker
\* before it, after an earlier marker set the category
C13_BehindPreviousMarkerWitness ==
    \E m \in 2..Len(resolved) :
        /\ resolved[m].name_row # 0
        /\ AcceptedAbove(resolved[m].name_row) # {}
        /\ ~IsNumericLabel(NearestAccepted(resolved[m].name_row))
        /\ NearestAccepted(resolved[m].name_row) < resolved[m - 1].rid_row
        /\ resolved[m].cat_row = 0
        /\ current_category # None

\* column A of row r holds 'Ingredients', white space around it aside
HoldsIngredients(r) ==
    Truthy(Cell(ws, r, 1)) /\ Strip(Str(Cell(ws, r, 1))) = S_Ingredients

\* the rows holding the label among the 12 rows starting at marker row rid,
\* bounded by the last row of the grid
LabelRows(rid) == {r \in rid..Min(rid + 11, max_row) : HoldsIngredients(r)}

\* the first line-item row of the marker at row rid: directly below the first
\* label row, two below when the row directly below holds 'S.No'
FirstItemRow(rid) ==
    LET label == CHOOSE r \in LabelRows(rid) : \A o \in LabelRows(rid) : r <= o
        below == Cell(ws, label + 1, 1)
    IN  IF Truthy(below) /\ Contains(Str(below), S_SNo) THEN label + 2 ELSE label + 1

\* the category current after marker m: the text of the row of the last
\* overwrite up to m, None if there was none
CategoryAfter(m) ==
    LET hits == {o \in 1..m : resolved[o].cat_row # 0}
        last == CHOOSE o \in hits : \A h \in hits : h <= o
    IN  IF hits = {} THEN None
        ELSE Txt(Strip(Str(Cell(ws, resolved[last].cat_row, 1))))

\* marker m was handled, had a name and has no label in its 12 rows
Unlabelled(m) ==
    /\ m \in 1..Len(resolved)
    /\ resolved[m].name_row # 0
    /\ LabelRows(resolved[m].rid_row) = {}

\* C14: a marker with a name and no 'Ingredients' label (white space around
\* it aside) in column A of the 12 rows from the marker row, bounded by the
\* last row, emits no Record and raises nothing; right after it the category
\* resolved up to it is still the current one, the scan goes on to the next
\* marker, and on return every marker was handled; a Record emitted later
\* with no overwrite in between carries that category.  Every Record has a
\* label in the 12 rows of its marker, none of its Line Items comes from
\* above the first line-item row (the row directly below the label, two
\* below when that row holds 'S.No'), and the first one comes from that row
\* when it holds an ordinal.
C14_NoSectionNoRecord ==
    /\ \A m \in 1..Len(resolved) :
           Unlabelled(m) =>
               /\ ~resolved[m].emitted
               /\ \A p \in 1..Len(recipes) : recipes[p].rid_row # resolved[m].rid_row
               /\ m = Len(resolved) =>
                      /\ pc \in {"pass2", "returned"}
                      /\ idx = m + 1
                      /\ current_category = CategoryAfter(m)
               /\ \A o \in (m + 1)..Len(resolved) :
                      ( /\ resolved[o].emitted
                        /\ \A x \in (m + 1)..o : resolved[x].cat_row = 0 )
                          => \A p \in 1..Len(recipes) :
                                 recipes[p].rid_row = resolved[o].rid_row =>
                                     Txt(recipes[p].category) =
                                         (IF CategoryAfter(m) = None THEN Txt(<<>>)
                                          ELSE CategoryAfter(m))
    /\ (script = "parse" /\ pc = "returned") => Len(resolved) = Cardinality(Markers)
    /\ \A p \in 1..Len(recipes) :
           LET rid == recipes[p].rid_row
               rows == ItemRows(recipes[p])
           IN  /\ LabelRows(rid) # {}
               /\ \A x \in 1..Len(rows) : rows[x] >= FirstItemRow(rid)
               /\ ( /\ Cell(ws, FirstItemRow(rid), 1) # None
                    /\ IsOrdinal(Cell(ws, FirstItemRow(rid), 1)) )
                      => rows # <<>> /\ rows[1] = FirstItemRow(rid)

\* C14 witness: a marker with a name, a category row of its own and the
\* label on the 13th row from it was dropped, and a later marker emitted a
\* Record that carries the dropped marker's category
C14_DroppedMarkerWitness ==
    \E m \in 1..Len(resolved) :
        /\ Unlabelled(m)
        /\ resolved[m].cat_row # 0
        /\ HoldsIngredients(resolved[m].rid_row + 12)
        /\ \E p \in 1..Len(recipes) :
               /\ recipes[p].rid_row > resolved[m].rid_row
               /\ Txt(recipes[p].category) = CategoryAfter(m)
               /\ \A o \in (m + 1)..Len(resolved) : resolved[o].cat_row = 0

(***************************************************************************)
(* Properties of the persistence loops                                     *)
(***************************************************************************)
\* the requests to the record-creation endpoint that carry recipe r
\* (0-based position in the list passed to insert_recipes_batch)
Carrying(r) ==
    {p \in 1..Len(requests) :
        /\ requests[p].kind \in {"batch", "single"}
        /\ requests[p].first <= r
        /\ r < requests[p].first + requests[p].count}

\* C8 as stated: each recipe is sent to the record-creation endpoint in at
\* most one request.
C8_AtMostOneRequest ==
    script = "insert" => \A r \in 0..(total - 1) : Cardinality(Carrying(r)) <= 1

\* C8 amended: each recipe is sent in at most two requests: once in its
\* batch and, only after that batch failed with an HTTP error, once on its
\* own; a recipe whose own request failed is not sent again.
C8_AtMostOneRetry ==
    script = "insert" =>
        \A r \in 0..(total - 1) :
            LET batches == {p \in Carrying(r) : requests[p].kind = "batch"}
                singles == {p \in Carrying(r) : requests[p].kind = "single"}
            IN  /\ Cardinality(batches) <= 1
                /\ Cardinality(singles) <= 1
                /\ \A sp \in singles :
                       \E bp \in batches :
                           bp < sp /\ requests[bp].outcome = "http_error"

\* C8 witness: the run ended and a recipe of a failed batch was sent again
\* on its own, failed again and was left at that
C8_RetriedOnceWitness ==
    /\ script = "insert" /\ pc = "done"
    /\ \E r \in 0..(total - 1) :
           /\ Cardinality(Carrying(r)) = 2
           /\ \A p \in Carrying(r) : requests[p].outcome = "http_error"

IsBatch(r) == r.kind = "batch"
Batches == SelectSeq(requests, IsBatch)

\* every batch was attempted, in input order, and every recipe of a batch
\* that failed with an HTTP error was then attempted, in input order
AllBatchesAttempted ==
    /\ Len(Batches) * batch_size >= total
    /\ (Len(Batches) - 1) * batch_size < total \/ total = 0
    /\ \A p \in 1..Len(Batches) :
           /\ Batches[p].first = (p - 1) * batch_size
           /\ Batches[p].count = Min(batch_size, total - Batches[p].first)
    /\ \A p \in 1..Len(requests) :
           (requests[p].kind = "batch" /\ requests[p].outcome = "http_error")
               => \A d \in 0..(requests[p].count - 1) :
                      /\ p + 1 + d <= Len(requests)
                      /\ requests[p + 1 + d].kind = "single"
                      /\ requests[p + 1 + d].first = requests[p].first + d

\* every matched recipe was attempted, in the order of the matched list
AllUpdatesAttempted ==
    /\ Len(requests) = Len(matched)
    /\ \A p \in 1..Len(requests) :
           requests[p].kind = "patch" /\ requests[p].first = matched[p].recipe

\* the run stopped on an exception
Aborted == script \in {"insert", "enrich"} /\ pc = "raised"

\* C9: an HTTP error never stops the run: the run only stops early on a
\* failure that is no HTTP error, a run that ends has attempted every batch
\* (and every recipe of a failed batch) or every matched recipe in input
\* order, and every run that enters a loop leaves it.
C9_HttpErrorNeverStopsRun ==
    /\ [](Aborted =>
            \/ requests # <<>> /\ requests[Len(requests)].outcome = "url_error"
            \/ script = "enrich" /\ requests = <<>> /\ NutrientRaises(nutrient))
    /\ []((script = "insert" /\ pc = "done") => AllBatchesAttempted)
    /\ []((script = "enrich" /\ pc = "done") => AllUpdatesAttempted)
    /\ (pc \in {"batch", "single", "update"}) ~> (pc \in {"done", "raised"})

\* C9 witness: a run that ended after a request failed with an HTTP error
\* and later requests were sent
C9_ContinuedAfterErrorWitness ==
    /\ pc = "done"
    /\ \E p \in 1..(Len(requests) - 1) :
           requests[p].outcome = "http_error" /\ requests[p + 1].outcome = "ok"
    /\ Len(requests) >= 3

\* C10: every PATCH goes to a recipe that was fetched without per_serving
\* nutrition, the PATCHes follow the matched list one for one, and no recipe
\* is PATCHed twice.
C10_OnlyMissingNutritionPatched ==
    script = "enrich" =>
        /\ Len(requests) <= Len(matched)
        /\ \A p \in 1..Len(requests) :
               /\ requests[p].kind = "patch"
               /\ requests[p].first = matched[p].recipe
               /\ requests[p].first \in 1..Len(db)
               /\ db[requests[p].first].nutrition # "per_serving_full"
        /\ \A p, q \in 1..Len(requests) :
               p # q => requests[p].first # requests[q].first

\* C10 witness: a run that sent a PATCH although the store also returned a
\* recipe with per_serving nutrition
C10_PatchedBesideFullWitness ==
    /\ script = "enrich" /\ pc = "done"
    /\ requests # <<>>
    /\ \E p \in 1..Len(db) : db[p].nutrition = "per_serving_full"

\* the answers that confirm, among those the operator may type
ConfirmingAnswers == {<<"y", "e", "s">>, <<"y">>, <<"Y", "E", "S">>, <<"Y">>, <<"Y", "e", "s">>}

\* C11: with '--dry-run' no insert or update request is ever sent, also when
\* '--yes' is given; otherwise a request is sent only if '--yes' is given or
\* the operator answered yes or y in any letter case; the prompt is shown
\* only without both flags, and any other answer ends the run with no
\* request sent.
C11_WritesGated ==
    script \in {"insert", "enrich"} =>
        /\ "--dry-run" \in argv => requests = <<>>
        /\ requests # <<>> =>
               \/ "--yes" \in argv
               \/ response # None /\ response.s \in ConfirmingAnswers
        /\ response # None => argv = {}
        /\ (response # None /\ response.s \notin ConfirmingAnswers)
               => requests = <<>> /\ pc = "exit"

\* C11 witness: a request was sent after the operator answered YES
C11_UpperCaseYesWitness ==
    /\ script \in {"insert", "enrich"}
    /\ requests # <<>>
    /\ response = Txt(<<"Y", "E", "S">>)

\* the recipes carried by the batch requests sent so far
RECURSIVE BatchedRecipes(_)
BatchedRecipes(log) ==
    IF log = <<>> THEN 0
    ELSE (IF Head(log).kind = "batch" THEN Head(log).count ELSE 0)
             + BatchedRecipes(Tail(log))

\* the one-by-one requests with the given outcome
SinglesWith(outcome) ==
    {p \in 1..Len(requests) :
        requests[p].kind = "single" /\ requests[p].outcome = outcome}

\* the recipes of the batch requests that succeeded
RECURSIVE InsertedInBatches(_)
InsertedInBatches(log) ==
    IF log = <<>> THEN 0
    ELSE (IF Head(log).kind = "batch" /\ Head(log).outcome = "ok"
          THEN Head(log).count ELSE 0) + InsertedInBatches(Tail(log))

\* C15: in insert_recipes_batch, with requests that succeed or fail with an
\* HTTP error, inserted and errors are never negative; whenever the loop is
\* between two batches inserted + errors is the number of recipes of the
\* batches sent so far (all recipes before position i); and on return
\* inserted + errors = total, errors is the number of recipes whose own
\* request failed too, and inserted the number of the others.
C15_Accounting ==
    script = "insert" =>
        /\ inserted >= 0 /\ errors >= 0
        /\ pc \in {"batch", "done"} =>
               /\ inserted + errors = BatchedRecipes(requests)
               /\ inserted + errors = Min(i, total)
        /\ pc = "done" =>
               /\ inserted + errors = total
               /\ errors = Cardinality(SinglesWith("http_error"))
               /\ inserted = InsertedInBatches(requests)
                                 + Cardinality(SinglesWith("ok"))

\* C15 witness: the function returned after a batch that succeeded and a
\* batch that failed, one recipe of which went in on its own and one did not
C15_MixedRunWitness ==
    /\ script = "insert" /\ pc = "done"
    /\ InsertedInBatches(requests) > 0
    /\ SinglesWith("ok") # {}
    /\ SinglesWith("http_error") # {}

====
